---------------------------- MODULE Spec2Model ----------------------------
(***************************************************************************)
(* A model of lib/ansible/modules/package_facts.py: the selection loop of  *)
(* main() over the package-manager backends, the availability checks of    *)
(* the binding-based backends (RPM, APT) with their re-execution under an  *)
(* alternate interpreter, and the per-backend get_package_details parsers. *)
(*                                                                         *)
(* Text is modelled as sequences of one-character strings, so that the     *)
(* split/rsplit calls of the parsers are computed, not assumed.            *)
(***************************************************************************)
EXTENDS Integers, Sequences, FiniteSets, TLC

(***************************************************************************)
(* Bounds of the model.                                                    *)
(***************************************************************************)
\* longest request list (module.params['manager'])
MaxReq == 2
\* how many backends of one host are more than simply absent
MaxInstalled == 2
\* longest listing one backend returns from list_installed()
MaxListing == 1

(***************************************************************************)
(* Sequence helpers.                                                       *)
(***************************************************************************)
SeqsUpTo(S, n) == UNION {[1..k -> S] : k \in 0..n}

Range(s) == {s[i] : i \in 1..Len(s)}

\* index of the first occurrence of x in s, 0 when absent (list.index)
IndexOf(s, x) ==
    IF x \in Range(s) THEN CHOOSE i \in 1..Len(s) : s[i] = x /\ \A j \in 1..(i-1) : s[j] # x
    ELSE 0

\* list.remove(x): drops the FIRST occurrence of x only
ListRemove(s, x) ==
    LET i == IndexOf(s, x)
    IN  IF i = 0 THEN s ELSE SubSeq(s, 1, i-1) \o SubSeq(s, i+1, Len(s))

\* list.insert(0, x)
ListInsertFront(s, x) == <<x>> \o s

\* the empty dict
EmptyRec == [k \in {} |-> TRUE]

(***************************************************************************)
(* Text: a str is a sequence of one-character strings.                     *)
(***************************************************************************)
\* index of the last occurrence of c in s, 0 when absent
LastIndexOf(s, c) ==
    IF c \in Range(s) THEN CHOOSE i \in 1..Len(s) : s[i] = c /\ \A j \in (i+1)..Len(s) : s[j] # c
    ELSE 0

\* s.split(c, 1)
Split1(s, c) ==
    LET i == IndexOf(s, c)
    IN  IF i = 0 THEN <<s>> ELSE <<SubSeq(s, 1, i-1), SubSeq(s, i+1, Len(s))>>

\* s.rsplit(c, 1)
RSplit1(s, c) ==
    LET i == LastIndexOf(s, c)
    IN  IF i = 0 THEN <<s>> ELSE <<SubSeq(s, 1, i-1), SubSeq(s, i+1, Len(s))>>

\* s.rsplit(c, 2)
RSplit2(s, c) ==
    LET r == RSplit1(s, c)
    IN  IF Len(r) = 1 THEN r ELSE RSplit1(r[1], c) \o <<r[2]>>

\* s.split(c)
RECURSIVE Split(_, _)
Split(s, c) ==
    LET i == IndexOf(s, c)
    IN  IF i = 0 THEN <<s>>
        ELSE <<SubSeq(s, 1, i-1)>> \o Split(SubSeq(s, i+1, Len(s)), c)

\* s.split(c + c): the separator is the character c twice
RECURSIVE SplitDouble(_, _)
SplitDouble(s, c) ==
    LET hits == {i \in 1..(Len(s)-1) : s[i] = c /\ s[i+1] = c}
    IN  IF hits = {} THEN <<s>>
        ELSE LET i == CHOOSE k \in hits : \A j \in hits : k <= j
             IN  <<SubSeq(s, 1, i-1)>> \o SplitDouble(SubSeq(s, i+2, Len(s)), c)

Whitespace == {" ", "\t", "\n", "\r"}

\* s.lstrip()
RECURSIVE LStrip(_)
LStrip(s) == IF s # <<>> /\ s[1] \in Whitespace THEN LStrip(Tail(s)) ELSE s

\* s.rstrip()
RECURSIVE RStrip(_)
RStrip(s) ==
    IF s # <<>> /\ s[Len(s)] \in Whitespace THEN RStrip(SubSeq(s, 1, Len(s)-1)) ELSE s

\* s.split(): the runs of non-whitespace
RECURSIVE SplitWhitespace(_)
SplitWhitespace(s) ==
    LET t == LStrip(s)
        ws == {i \in 1..Len(t) : t[i] \in Whitespace}
        e == IF ws = {} THEN Len(t) + 1 ELSE CHOOSE k \in ws : \A j \in ws : k <= j
    IN  IF t = <<>> THEN <<>>
        ELSE <<SubSeq(t, 1, e-1)>> \o SplitWhitespace(SubSeq(t, e, Len(t)))

\* s.splitlines(), for lines that end in "\n"
SplitLines(s) ==
    LET parts == Split(s, "\n")
    IN  IF parts[Len(parts)] = <<>> THEN SubSeq(parts, 1, Len(parts)-1) ELSE parts

Digits == <<"0", "1", "2", "3", "4", "5", "6", "7", "8", "9">>

Letters ==
    {"a", "b", "c", "d", "e", "f", "g", "h", "i", "j", "k", "l", "m",
     "n", "o", "p", "q", "r", "s", "t", "u", "v", "w", "x", "y", "z",
     "A", "B", "C", "D", "E", "F", "G", "H", "I", "J", "K", "L", "M",
     "N", "O", "P", "Q", "R", "S", "T", "U", "V", "W", "X", "Y", "Z"}

\* the regular expression class \w
WordChars == Letters \cup Range(Digits) \cup {"_"}

\* int(s) accepts s: a decimal numeral (signs and blanks are not modelled)
IsInt(s) == s # <<>> /\ \A i \in 1..Len(s) : s[i] \in Range(Digits)

\* int(s)
RECURSIVE IntOf(_)
IntOf(s) ==
    IF s = <<>> THEN 0
    ELSE 10 * IntOf(SubSeq(s, 1, Len(s)-1)) + (IndexOf(Digits, s[Len(s)]) - 1)

(***************************************************************************)
(* Python values in a record a parser returns, and the dict itself: a      *)
(* function from field names to values.                                    *)
(***************************************************************************)
PyStr(s) == [str |-> s]

PyBool(b) == [bool |-> b]

PyInt(i) == [int |-> i]

PyList(l) == [list |-> l]

PyNone == [none |-> TRUE]

\* d[k] = v on a dict
DictSet(d, k, v) == (k :> v) @@ d

\* dict(zip(atoms, parts))
Zip(atoms, parts) ==
    LET n == IF Len(atoms) <= Len(parts) THEN Len(atoms) ELSE Len(parts)
    IN  [k \in {atoms[i] : i \in 1..n} |->
            PyStr(parts[CHOOSE i \in 1..n : atoms[i] = k /\ \A j \in (i+1)..n : atoms[j] # k])]

\* what a call gives: a value, or an exception
Returned(rec) == [raised |-> FALSE, rec |-> rec]

Raised == [raised |-> TRUE, rec |-> EmptyRec]

(***************************************************************************)
(* The backends.                                                           *)
(***************************************************************************)
\* get_all_pkg_managers(): the classes of this module, keyed by lowercased
\* class name, in class-definition order
PackageManagerNames == <<"rpm", "apt", "pacman", "pkg", "portage", "apk", "yum">>

KnownTags == Range(PackageManagerNames)

\* the binding-based backends (class X(LibMgr))
LibTags == {"rpm", "apt"}

\* the native executables each backend looks for with get_bin_path
NativeTools(tag) ==
    CASE tag = "rpm"     -> <<"rpm">>
      [] tag = "apt"     -> <<"apt", "apt-get", "aptitude">>
      [] tag = "pacman"  -> <<"pacman">>
      [] tag = "pkg"     -> <<"pkg">>
      [] tag = "portage" -> <<"qlist">>
      [] tag = "apk"     -> <<"apk">>
      [] tag = "yum"     -> <<"yum">>

\* the tags a request list is drawn from: two spellings of auto, two known
\* backends and one tag no backend has
RequestTags == {"auto", "AUTO", "yum", "apt", "bogus"}

\* the backends the modelled hosts may have installed; the others are
\* attempted like these and found absent
HostTags == {"rpm", "apt", "yum"}

\* str.lower() on the request tags
Lower(t) == IF t = "AUTO" THEN "auto" ELSE t

LowerAll(s) == [i \in 1..Len(s) |-> Lower(s[i])]

PkgNames == {"foo", "bar"}


\* what list_installed() of one backend can return: one package name per
\* installed instance
Listings == SeqsUpTo(PkgNames, MaxListing)

(***************************************************************************)
(* State of one process running main().                                    *)
(***************************************************************************)
VARIABLES
    manager,          \* module.params['manager'], as given
    strategy,         \* module.params['strategy']
    all_available,    \* module.params['all_available']
    has_respawned,    \* has_respawned(): this process is the respawned copy
    pc,               \* position in main()
    managers,         \* the local list 'managers'
    auto,             \* the local 'auto'
    idx,              \* position of the for loop in 'managers' (1-based)
    found,            \* the local 'found'
    seen,             \* the local set 'seen'
    packages,         \* the local dict 'packages'
    warnings,         \* what module.warn() has collected, in order
    msg,              \* the kind of message given to module.fail_json()
    attempts,         \* history: one record per backend the loop constructed
    mgr_class,        \* a manager object: the tag of its class
    mgr_need,         \* its _need_package_details
    mgr_all,          \* its _all_available
    mgr_entry,        \* one entry of its list_installed()
    mgr_result        \* what get_package_details(entry) gave, once called

mvars == <<manager, strategy, all_available, has_respawned, pc, managers, auto,
           idx, found, seen, packages, warnings, msg, attempts>>

dvars == <<mgr_class, mgr_need, mgr_all, mgr_entry, mgr_result>>

vars == <<mvars, dvars>>

EmptyDict == [n \in {} |-> <<>>]

(***************************************************************************)
(* main(), lines 575-598: expand, validate, prioritize.                    *)
(***************************************************************************)
\* lines 579-582: managers.extend(package_manager_names); managers.remove('auto')
Expand(ms, isAuto) ==
    IF isAuto THEN ListRemove(ms \o PackageManagerNames, "auto") ELSE ms

\* line 584: set(managers).difference(package_manager_names)
Unsupported(ms) == Range(ms) \ KnownTags

\* lines 586-589: which message fail_json gets for unsupported managers
UnsupportedMsg(params_manager) ==
    IF "auto" \in Range(params_manager) THEN "could_not_auto_detect"
    ELSE "unsupported_requested"

\* Prioritize without its reordering
Prioritize_NoReorder(ms, isAuto, strat) == ms

\* lines 594-598: rpm goes to the front in auto mode under strategy first
Prioritize(ms, isAuto, strat) ==
    IF isAuto /\ "rpm" \in Range(ms) /\ "yum" \in Range(ms) /\ strat = "first"
    THEN ListInsertFront(ListRemove(ms, "rpm"), "rpm")
    ELSE ms

\* StopAfterFirst that never breaks
StopAfterFirst_Never(f, strat) == FALSE

(***************************************************************************)
(* The loop, lines 600-629.                                                *)
(***************************************************************************)
\* line 604: if found and strategy == 'first': break
StopAfterFirst(f, strat) == f > 0 /\ strat = "first"

\* AlreadySeen without the set
AlreadySeen_Never(pkgmgr, s) == FALSE

\* line 608: if pkgmgr in seen: continue
AlreadySeen(pkgmgr, s) == pkgmgr \in s

\* line 623: if pkgmgr in module.params['manager']
WarnRequested(pkgmgr, params_manager) == pkgmgr \in Range(params_manager)

\* line 620: packages.update(d): every key of d replaces the key's old value
DictUpdate(p, d) ==
    [n \in DOMAIN p \cup DOMAIN d |-> IF n \in DOMAIN d THEN d[n] ELSE p[n]]

\* line 631: if found == 0
NoneFound(f) == f = 0

\* PkgMgr.get_packages(): the records of one backend's listing, keyed by
\* name, each name's records in listing order, each carrying the backend tag
RecordsFor(tag, listing, n) ==
    LET F[i \in 0..Len(listing)] ==
            IF i = 0 THEN <<>>
            ELSE IF listing[i] = n
                 THEN Append(F[i-1], [name |-> n, source |-> tag])
                 ELSE F[i-1]
    IN  F[Len(listing)]

GetPackages(tag, listing) ==
    [n \in Range(listing) |-> RecordsFor(tag, listing, n)]

(***************************************************************************)
(* is_available() of the backends.  Its result: the value returned, the    *)
(* warnings given to module.warn, whether probe_interpreters_for_module    *)
(* was called and whether respawn_module was called (which ends the        *)
(* process once the respawned copy completes).                             *)
(***************************************************************************)
Avail(r, w, p, x) == [ret |-> r, warns |-> w, probed |-> p, respawn |-> x]

MissingLibWarning(exe, lib) == [kind |-> "found_but_missing_lib", exe |-> exe, tag |-> lib]

NotUsableWarning(tag) == [kind |-> "not_usable", exe |-> "", tag |-> tag]

\* RPM_is_available without the has_respawned() test of line 292
RPM_is_available_NoRespawnTest(all_av, lib, bins, resp, interp) ==
    IF all_av THEN Avail(FALSE, <<>>, FALSE, FALSE)
    ELSE IF "rpm" \notin bins THEN Avail(lib, <<>>, FALSE, FALSE)
    ELSE IF ~lib /\ interp THEN Avail(FALSE, <<>>, TRUE, TRUE)
    ELSE Avail(lib,
               IF ~lib THEN <<MissingLibWarning("rpm", "rpm")>> ELSE <<>>,
               ~lib, FALSE)

\* RPM.is_available, lines 278-308.  lib: the rpm binding imports here;
\* bins: the executables get_bin_path finds; interp: an alternate
\* interpreter has the binding
RPM_is_available(all_av, lib, bins, resp, interp) ==
    IF all_av THEN Avail(FALSE, <<>>, FALSE, FALSE)
    ELSE IF "rpm" \notin bins THEN Avail(lib, <<>>, FALSE, FALSE)
    ELSE IF ~lib /\ ~resp /\ interp THEN Avail(FALSE, <<>>, TRUE, TRUE)
    ELSE Avail(lib,
               IF ~lib THEN <<MissingLibWarning("rpm", "rpm")>> ELSE <<>>,
               ~lib /\ ~resp, FALSE)

\* the first of apt, apt-get, aptitude that get_bin_path finds (lines 332-336)
FirstExe(exes, bins) ==
    LET hits == {i \in 1..Len(exes) : exes[i] \in bins}
    IN  IF hits = {} THEN ""
        ELSE exes[CHOOSE i \in hits : \A j \in hits : i <= j]

\* APT.is_available, lines 327-351
APT_is_available(lib, bins, resp, interp) ==
    LET exe == FirstExe(NativeTools("apt"), bins)
    IN  IF lib THEN Avail(TRUE, <<>>, FALSE, FALSE)
        ELSE IF exe = "" THEN Avail(FALSE, <<>>, FALSE, FALSE)
        ELSE IF ~resp /\ interp THEN Avail(FALSE, <<>>, TRUE, TRUE)
        ELSE Avail(FALSE, <<MissingLibWarning(exe, "apt")>>, ~resp, FALSE)

\* CLIMgr.is_available: the backend's executable is on the path
CLI_is_available(tag, bins) ==
    Avail(NativeTools(tag)[1] \in bins, <<>>, FALSE, FALSE)

\* manager.is_available() of the object package_managers[pkgmgr]() built
IsAvailable(tag, env) ==
    CASE tag = "rpm" -> RPM_is_available(all_available, env.lib, env.bins, has_respawned, env.interp)
      [] tag = "apt" -> APT_is_available(env.lib, env.bins, has_respawned, env.interp)
      [] OTHER       -> CLI_is_available(tag, env.bins)

(***************************************************************************)
(* What the host offers one backend.  lib: the binding imports; bins: the  *)
(* native executables on the path; interp: an alternate interpreter has    *)
(* the binding.                                                            *)
(***************************************************************************)
Envs(tag) ==
    [lib : IF tag \in LibTags THEN BOOLEAN ELSE {FALSE},
     bins : SUBSET Range(NativeTools(tag)),
     interp : IF tag \in LibTags THEN BOOLEAN ELSE {FALSE}]

\* the backend is simply not there: nothing of it is installed
Absent(env) == ~env.lib /\ env.bins = {}

Installed(as) == Cardinality({i \in 1..Len(as) : as[i].installed})

\* the host has room for one more backend that is more than absent
MayBeInstalled ==
    /\ managers[idx] \in HostTags
    /\ Installed(attempts) < MaxInstalled

\* history record of one pass through the loop body
Attempt(tag, outcome, installed, lib, tool, av, listing) ==
    [tag |-> tag, outcome |-> outcome, installed |-> installed,
     lib |-> lib, tool |-> tool,
     probed |-> av.probed, warned |-> av.warns # <<>>, listing |-> listing]

NoAvail == Avail(FALSE, <<>>, FALSE, FALSE)

(***************************************************************************)
(* get_package_details() of the backends.  need: _need_package_details;    *)
(* all_av: _all_available.                                                 *)
(***************************************************************************)
\* RPM.get_package_details, lines 267-276; package: an rpm header
RPM_get_package_details(package, need) ==
    LET res == "name" :> package.name
    IN  Returned(IF need
                 THEN DictUpdate(res, [version |-> package.version,
                                       release |-> package.release,
                                       epoch |-> package.epoch,
                                       arch |-> package.arch])
                 ELSE res)

\* APT.get_package_details, lines 359-369; package: a name and the entry
\* pkg_cache[name] (its is_installed, and installed: a version or None)
APT_get_package_details(package, need, all_av) ==
    LET pkg_data == package.cache
        res == "name" :> PyStr(package.name)
    IN  IF ~need THEN Returned(res)
        ELSE IF all_av
             THEN Returned(DictUpdate(res, [is_installed |-> PyBool(pkg_data.is_installed)]))
        ELSE IF pkg_data.installed = PyNone THEN Raised
        ELSE Returned(DictUpdate(res, [version |-> pkg_data.installed.version,
                                       arch |-> pkg_data.installed.architecture,
                                       category |-> pkg_data.installed.section,
                                       origin |-> pkg_data.installed.origin]))

\* re.match(r"([\w ]*[\w]) +: (.*)", line), line 387: the two groups, or
\* <<>> when the line does not match
PacmanMatch(line) ==
    LET others == {i \in 1..Len(line) : line[i] \notin WordChars \cup {" "}}
        r == IF others = {} THEN Len(line)
             ELSE (CHOOSE i \in others : \A j \in others : i <= j) - 1
        words == {i \in 1..r : line[i] \in WordChars}
        k == IF words = {} THEN 0 ELSE CHOOSE i \in words : \A j \in words : j <= i
    IN  IF k = 0 \/ k = r \/ r + 2 > Len(line) THEN <<>>
        ELSE IF line[r+1] # ":" \/ line[r+2] # " " THEN <<>>
        ELSE <<SubSeq(line, 1, k), SubSeq(line, r+3, Len(line))>>

\* lines 384-393: the details of a block; last: <<last_detail>>, or <<>>
\* while last_detail is None
RECURSIVE PacmanDetails(_, _, _, _)
PacmanDetails(lines, i, details, last) ==
    IF i > Len(lines) THEN [raised |-> FALSE, details |-> details]
    ELSE LET m == PacmanMatch(lines[i])
         IN  IF m # <<>>
             THEN PacmanDetails(lines, i+1, DictSet(details, m[1], m[2]), <<m[1]>>)
             ELSE IF last = <<>> THEN [raised |-> TRUE, details |-> details]
             ELSE PacmanDetails(lines, i+1,
                      DictSet(details, last[1],
                              details[last[1]] \o <<" ", " ">> \o LStrip(lines[i])),
                      last)

\* lines 395-400
PacmanProvides(value) ==
    IF value = <<"N", "o", "n", "e">> THEN PyNone
    ELSE LET ps == SplitDouble(value, " ")
         IN  PyList([i \in 1..Len(ps) |-> Split(ps[i], "=")[1]])

\* PACMAN.get_package_details, lines 382-407
PACMAN_get_package_details(package) ==
    LET parsed == PacmanDetails(SplitLines(package), 1, EmptyRec, <<>>)
        d == parsed.details
    IN  IF parsed.raised THEN Raised
        ELSE IF {<<"P", "r", "o", "v", "i", "d", "e", "s">>, <<"N", "a", "m", "e">>, <<"V", "e", "r", "s", "i", "o", "n">>, <<"A", "r", "c", "h", "i", "t", "e", "c", "t", "u", "r", "e">>} \subseteq DOMAIN d
             THEN Returned([name |-> PyStr(d[<<"N", "a", "m", "e">>]),
                            version |-> PyStr(d[<<"V", "e", "r", "s", "i", "o", "n">>]),
                            arch |-> PyStr(d[<<"A", "r", "c", "h", "i", "t", "e", "c", "t", "u", "r", "e">>]),
                            provides |-> PacmanProvides(d[<<"P", "r", "o", "v", "i", "d", "e", "s">>])])
             ELSE Raised

\* PKG.atoms, line 413
PKG_atoms ==
    <<"name", "version", "origin", "installed", "automatic", "arch", "category",
      "prefix", "vital">>

\* lines 425-429
PKG_arch(pkg) ==
    IF "arch" \in DOMAIN pkg
    THEN LET segs == Split(pkg.arch.str, ":")
         IN  IF Len(segs) >= 3 THEN DictSet(pkg, "arch", PyStr(segs[3])) ELSE pkg
    ELSE pkg

\* lines 431-432 and 448-449: pkg[key] = bool(int(pkg[key]))
PKG_flag(pkg, key) ==
    IF key \in DOMAIN pkg THEN DictSet(pkg, key, PyBool(IntOf(pkg[key].str) # 0)) ELSE pkg

\* int() raises on the flag
PKG_flag_raises(pkg, key) == key \in DOMAIN pkg /\ ~IsInt(pkg[key].str)

\* lines 434-435
PKG_category(pkg) ==
    IF "category" \in DOMAIN pkg
    THEN DictSet(pkg, "category", PyStr(Split1(pkg.category.str, "/")[1]))
    ELSE pkg

\* PKG_version splitting on "_" before ","
PKG_version_RevisionFirst(pkg) ==
    IF "version" \in DOMAIN pkg
    THEN LET v == pkg.version.str
             byUnderscore == Split1(v, "_")
             p1 == IF "_" \in Range(v)
                   THEN DictSet(DictSet(pkg, "version", PyStr(byUnderscore[1])),
                                "revision", PyStr(byUnderscore[2]))
                   ELSE DictSet(pkg, "revision", PyStr(<<"0">>))
             v1 == p1.version.str
             byComma == Split1(v1, ",")
         IN  IF "," \in Range(v1)
             THEN DictSet(DictSet(p1, "version", PyStr(byComma[1])),
                          "port_epoch", PyStr(byComma[2]))
             ELSE DictSet(p1, "port_epoch", PyInt(0))
    ELSE pkg

\* lines 437-446
PKG_version(pkg) ==
    IF "version" \in DOMAIN pkg
    THEN LET v == pkg.version.str
             byComma == Split1(v, ",")
             p1 == IF "," \in Range(v)
                   THEN DictSet(DictSet(pkg, "version", PyStr(byComma[1])),
                                "port_epoch", PyStr(byComma[2]))
                   ELSE DictSet(pkg, "port_epoch", PyInt(0))
             v1 == p1.version.str
             byUnderscore == Split1(v1, "_")
         IN  IF "_" \in Range(v1)
             THEN DictSet(DictSet(p1, "version", PyStr(byUnderscore[1])),
                          "revision", PyStr(byUnderscore[2]))
             ELSE DictSet(p1, "revision", PyStr(<<"0">>))
    ELSE pkg

\* PKG.get_package_details, lines 421-451
PKG_get_package_details(package) ==
    LET pkg == Zip(PKG_atoms, Split(package, "\t"))
    IN  IF PKG_flag_raises(pkg, "automatic") \/ PKG_flag_raises(pkg, "vital") THEN Raised
        ELSE Returned(PKG_flag(PKG_version(PKG_category(
                          PKG_flag(PKG_arch(pkg), "automatic"))), "vital"))

\* PORTAGE.atoms, line 457
PORTAGE_atoms ==
    <<"category", "name", "version", "ebuild_revision", "slots", "prefixes", "sufixes">>

\* PORTAGE.get_package_details, lines 465-466
PORTAGE_get_package_details(package) ==
    Returned(Zip(PORTAGE_atoms, SplitWhitespace(package)))

\* APK.get_package_details, lines 485-497
APK_get_package_details(package, need, all_av) ==
    LET splitted == Split(package, " ")
        nvr == RSplit2(splitted[1], "-")
        ret == "name" :> PyStr(nvr[1])
        r1 == IF Len(nvr) > 1 THEN DictSet(ret, "version", PyStr(nvr[2])) ELSE ret
        r2 == IF Len(nvr) > 2 THEN DictSet(r1, "release", PyStr(nvr[3])) ELSE r1
        r3 == IF all_av
              THEN DictSet(r2, "installed", PyBool(splitted[Len(splitted)] = <<"[", "i", "n", "s", "t", "a", "l", "l", "e", "d", "]">>))
              ELSE r2
    IN  Returned(IF need THEN r3 ELSE ret)

\* the character classes of the three columns of YUM's pattern, line 517
YumNameChars == Letters \cup Range(Digits) \cup {"-", "_", ".", "+"}

YumVersionChars == Letters \cup Range(Digits) \cup {"-", "_", ":", ".", "+", "~"}

YumRepoChars == Letters \cup Range(Digits) \cup {"-", "_", ":", "@"}

\* self._compiled_re.match(package), lines 517-518: the three groups, or
\* <<>> when the line does not match
YumMatch(package) ==
    LET cols == SplitWhitespace(package)
    IN  IF Len(cols) # 3 THEN <<>>
        ELSE IF /\ Range(cols[1]) \subseteq YumNameChars
                /\ Range(cols[2]) \subseteq YumVersionChars
                /\ Range(cols[3]) \subseteq YumRepoChars
             THEN cols
             ELSE <<>>

\* YUM_ver_list splitting on the last ":" instead of the first
YUM_ver_list_LastColon(ver_full) == RSplit1(ver_full, ":")

\* ver_full.split(':', 1), line 537
YUM_ver_list(ver_full) == Split1(ver_full, ":")

\* YUM.get_package_details, lines 515-557
YUM_get_package_details(package, need) ==
    LET matches == YumMatch(package)
        first == matches[1]
        arch_list == RSplit1(first, ".")
        pkg == IF Len(arch_list) = 2 THEN arch_list[1] ELSE first
        arch == IF Len(arch_list) = 2 THEN arch_list[2] ELSE <<>>
        res == "name" :> PyStr(pkg)
        r1 == IF arch # <<>> THEN DictSet(res, "arch", PyStr(arch)) ELSE res
        ver_full == matches[2]
        ver_list == YUM_ver_list(ver_full)
        epoch == IF Len(ver_list) = 2 THEN ver_list[1] ELSE <<>>
        ver_tail == IF Len(ver_list) = 2 THEN ver_list[2] ELSE ver_full
        r2 == IF epoch # <<>> THEN DictSet(r1, "epoch", PyStr(epoch)) ELSE r1
        rel_list == RSplit1(ver_tail, "-")
        ver == IF Len(rel_list) = 2 THEN rel_list[1] ELSE ver_tail
        release == IF Len(rel_list) = 2 THEN rel_list[2] ELSE <<>>
        r3 == IF release # <<>> THEN DictSet(r2, "release", PyStr(release)) ELSE r2
    IN  IF matches = <<>> THEN Returned(EmptyRec)
        ELSE IF ~need THEN Returned(res)
        ELSE Returned(DictSet(DictSet(r3, "version", PyStr(ver)), "repo", PyStr(matches[3])))

(***************************************************************************)
(* The process: main() from its parameters to exit_json / fail_json.       *)
(***************************************************************************)
Requests == SeqsUpTo(RequestTags, MaxReq) \ {<<>>}

\* no manager object is under study
NoManagerObject ==
    /\ mgr_class = ""
    /\ mgr_need = FALSE
    /\ mgr_all = FALSE
    /\ mgr_entry = <<>>
    /\ mgr_result = <<>>

Init ==
    /\ manager \in Requests
    /\ strategy \in {"first", "all"}
    /\ all_available \in BOOLEAN
    /\ has_respawned \in BOOLEAN
    /\ pc = "start"
    /\ managers = <<>>
    /\ auto = FALSE
    /\ idx = 1
    /\ found = 0
    /\ seen = {}
    /\ packages = EmptyDict
    /\ warnings = <<>>
    /\ msg = ""
    /\ attempts = <<>>
    /\ NoManagerObject

params == <<manager, strategy, all_available, has_respawned>>

\* lines 575-590 when a requested manager is not supported: fail_json
ValidateFail ==
    /\ pc = "start"
    /\ LET lowered == LowerAll(manager)
           isAuto == "auto" \in Range(lowered)
           ms == Expand(lowered, isAuto)
       IN  /\ Unsupported(ms) # {}
           /\ managers' = ms
           /\ auto' = isAuto
           /\ msg' = UnsupportedMsg(manager)
           /\ pc' = "fail"
    /\ UNCHANGED <<dvars, params, idx, found, seen, packages, warnings, attempts>>

\* lines 575-601 when every manager is supported: on to the loop
ValidateOk ==
    /\ pc = "start"
    /\ LET lowered == LowerAll(manager)
           isAuto == "auto" \in Range(lowered)
           ms == Expand(lowered, isAuto)
       IN  /\ Unsupported(ms) = {}
           /\ managers' = Prioritize(ms, isAuto, strategy)
           /\ auto' = isAuto
           /\ pc' = "loop"
    /\ UNCHANGED <<dvars, params, idx, found, seen, packages, warnings, msg, attempts>>

\* lines 631-641: fail_json when nothing was found, exit_json otherwise
Finalize ==
    /\ pc' = IF NoneFound(found) THEN "fail" ELSE "exit"
    /\ msg' = IF NoneFound(found) THEN "could_not_detect" ELSE msg

InLoop == pc = "loop" /\ idx <= Len(managers)

\* the loop has gone through 'managers'
LoopExhausted ==
    /\ pc = "loop"
    /\ idx > Len(managers)
    /\ Finalize
    /\ UNCHANGED <<dvars, params, managers, auto, idx, found, seen, packages, warnings, attempts>>

\* lines 604-605: break
LoopBreak ==
    /\ InLoop
    /\ StopAfterFirst(found, strategy)
    /\ Finalize
    /\ UNCHANGED <<dvars, params, managers, auto, idx, found, seen, packages, warnings, attempts>>

\* lines 608-609: continue
LoopSkipSeen ==
    /\ InLoop
    /\ ~StopAfterFirst(found, strategy)
    /\ AlreadySeen(managers[idx], seen)
    /\ idx' = idx + 1
    /\ UNCHANGED <<dvars, params, pc, managers, auto, found, seen, packages, warnings, msg, attempts>>

\* the loop body is entered for managers[idx]
Enter ==
    /\ InLoop
    /\ ~StopAfterFirst(found, strategy)
    /\ ~AlreadySeen(managers[idx], seen)

\* lines 622-625: the except branch of the loop body
Except(tag, ws) ==
    IF WarnRequested(tag, manager) THEN Append(ws, NotUsableWarning(tag)) ELSE ws

\* line 614 raises
AttemptCtorError ==
    /\ Enter
    /\ MayBeInstalled
    /\ LET tag == managers[idx] IN
        /\ seen' = seen \cup {tag}
        /\ warnings' = Except(tag, warnings)
        /\ attempts' = Append(attempts,
                Attempt(tag, "ctor_error", TRUE, FALSE, FALSE, NoAvail, <<>>))
        /\ idx' = idx + 1
    /\ UNCHANGED <<dvars, params, pc, managers, auto, found, packages, msg>>

\* line 618: is_available() returns false
AttemptNotAvailable ==
    /\ Enter
    /\ \E env \in Envs(managers[idx]) :
        LET tag == managers[idx]
            av == IsAvailable(tag, env) IN
        /\ Absent(env) \/ MayBeInstalled
        /\ ~av.respawn /\ ~av.ret
        /\ seen' = seen \cup {tag}
        /\ warnings' = warnings \o av.warns
        /\ attempts' = Append(attempts,
                Attempt(tag, "not_available", ~Absent(env), env.lib, env.bins # {}, av, <<>>))
        /\ idx' = idx + 1
    /\ UNCHANGED <<dvars, params, pc, managers, auto, found, packages, msg>>

\* line 618: is_available() calls respawn_module, which does not return
AttemptRespawn ==
    /\ Enter
    /\ MayBeInstalled
    /\ \E env \in Envs(managers[idx]) :
        LET tag == managers[idx]
            av == IsAvailable(tag, env) IN
        /\ av.respawn
        /\ seen' = seen \cup {tag}
        /\ attempts' = Append(attempts,
                Attempt(tag, "respawn", TRUE, env.lib, env.bins # {}, av, <<>>))
        /\ pc' = "respawned"
    /\ UNCHANGED <<dvars, params, managers, auto, idx, found, packages, warnings, msg>>

\* lines 618-620: found += 1, then get_packages() raises
AttemptListError ==
    /\ Enter
    /\ MayBeInstalled
    /\ \E env \in Envs(managers[idx]) :
        LET tag == managers[idx]
            av == IsAvailable(tag, env) IN
        /\ ~av.respawn /\ av.ret
        /\ seen' = seen \cup {tag}
        /\ found' = found + 1
        /\ warnings' = Except(tag, warnings \o av.warns)
        /\ attempts' = Append(attempts,
                Attempt(tag, "list_error", TRUE, env.lib, FALSE, av, <<>>))
        /\ idx' = idx + 1
    /\ UNCHANGED <<dvars, params, pc, managers, auto, packages, msg>>

\* lines 618-620: found += 1, packages.update(manager.get_packages())
AttemptMerge ==
    /\ Enter
    /\ MayBeInstalled
    /\ \E env \in Envs(managers[idx]), listing \in Listings :
        LET tag == managers[idx]
            av == IsAvailable(tag, env) IN
        /\ ~av.respawn /\ av.ret
        /\ seen' = seen \cup {tag}
        /\ found' = found + 1
        /\ packages' = DictUpdate(packages, GetPackages(tag, listing))
        /\ warnings' = warnings \o av.warns
        /\ attempts' = Append(attempts,
                Attempt(tag, "merged", TRUE, env.lib, FALSE, av, listing))
        /\ idx' = idx + 1
    /\ UNCHANGED <<dvars, params, pc, managers, auto, msg>>

Next ==
    \/ ValidateFail
    \/ ValidateOk
    \/ LoopExhausted
    \/ LoopBreak
    \/ LoopSkipSeen
    \/ AttemptCtorError
    \/ AttemptNotAvailable
    \/ AttemptRespawn
    \/ AttemptListError
    \/ AttemptMerge

Spec == Init /\ [][Next]_vars


(***************************************************************************)
(* One manager object and one entry of its listing: get_package_details    *)
(* applied to the entry.                                                   *)
(***************************************************************************)
\* rpm headers
RpmEntries ==
    [name : {PyStr(<<"f", "o", "o">>), PyStr(<<"b", "a", "r">>)}, version : {PyStr(<<"1", ".", "2">>)},
     release : {PyStr(<<"3", ".", "e", "l", "8">>)}, epoch : {PyNone, PyInt(1)}, arch : {PyStr(<<"x", "8", "6", "_", "6", "4">>)}]

\* apt: a name and its entry of the cache
AptEntries ==
    [name : {<<"f", "o", "o">>, <<"b", "a", "r">>},
     cache : [is_installed : {TRUE},
              installed : {[version |-> PyStr(<<"1", ".", "2", "-", "3">>), architecture |-> PyStr(<<"a", "m", "d", "6", "4">>),
                            section |-> PyStr(<<"u", "t", "i", "l", "s">>), origin |-> PyStr(<<"D", "e", "b", "i", "a", "n">>)]}]
             \cup [is_installed : {FALSE}, installed : {PyNone}]]

\* text of the lines, each ended by a newline but the last
JoinLines(lines) ==
    LET F[i \in 0..Len(lines)] ==
            IF i = 0 THEN <<>>
            ELSE IF i = 1 THEN lines[1]
            ELSE F[i-1] \o <<"\n">> \o lines[i]
    IN  F[Len(lines)]

\* pacman -Qi blocks
PacmanEntries ==
    {JoinLines(<<n, <<"V", "e", "r", "s", "i", "o", "n", " ", " ", " ", " ", " ", " ", " ", " ", " ", ":", " ", "1", ".", "0", "-", "1">>, <<"A", "r", "c", "h", "i", "t", "e", "c", "t", "u", "r", "e", " ", " ", " ", " ", ":", " ", "x", "8", "6", "_", "6", "4">>>> \o p) :
        n \in {<<"N", "a", "m", "e", " ", " ", " ", " ", " ", " ", " ", " ", " ", " ", " ", " ", ":", " ", "f", "o", "o">>, <<"N", "a", "m", "e", " ", " ", " ", " ", " ", " ", " ", " ", " ", " ", " ", " ", ":", " ", "b", "a", "r">>},
        p \in {<<<<"P", "r", "o", "v", "i", "d", "e", "s", " ", " ", " ", " ", " ", " ", " ", " ", ":", " ", "N", "o", "n", "e">>>>,
               <<<<"P", "r", "o", "v", "i", "d", "e", "s", " ", " ", " ", " ", " ", " ", " ", " ", ":", " ", "l", "i", "b", "f", "o", "o", "=", "1", " ", " ", "f", "o", "o", "b", "a", "r">>>>,
               <<<<"P", "r", "o", "v", "i", "d", "e", "s", " ", " ", " ", " ", " ", " ", " ", " ", ":", " ", "l", "i", "b", "f", "o", "o", "=", "1">>, <<" ", " ", " ", " ", " ", " ", " ", " ", " ", " ", " ", " ", " ", " ", " ", " ", " ", " ", "f", "o", "o", "b", "a", "r", "=", "2", " ", " ", "b", "a", "z">>>>,
               <<<<"I", "n", "s", "t", "a", "l", "l", " ", "R", "e", "a", "s", "o", "n", " ", " ", ":", " ", "E", "x", "p", "l", "i", "c", "i", "t", "l", "y", " ", "i", "n", "s", "t", "a", "l", "l", "e", "d">>>>,
               <<>>}}
    \cup {JoinLines(<<<<" ", " ", ":", " ", "c", "o", "n", "t", "i", "n", "u", "e", "d">>, <<"N", "a", "m", "e", " ", ":", " ", "f", "o", "o">>>>)}

\* columns joined by a tab
JoinTabs(cols) ==
    LET F[i \in 0..Len(cols)] ==
            IF i = 0 THEN <<>>
            ELSE IF i = 1 THEN cols[1]
            ELSE F[i-1] \o <<"\t">> \o cols[i]
    IN  F[Len(cols)]

PkgVersions == {<<"1", ".", "2">>, <<"1", ".", "2", ",", "1", "_", "3">>, <<"1", ".", "2", "_", "3", ",", "1">>, <<"1", ".", "2", "_", "3">>, <<"1", ".", "2", ",", "1">>, <<"1", "_", "2", "_", "3", ",", "4", ",", "5">>}

\* lines of pkg query
PkgEntries ==
    {JoinTabs(<<<<"f", "o", "o">>, v, <<"F", "r", "e", "e", "B", "S", "D">>, <<"1">>, a, q, <<"p", "o", "r", "t", "s", "/", "f", "o", "o">>, <<"/", "u", "s", "r", "/", "l", "o", "c", "a", "l">>, vi>>) :
        v \in PkgVersions, a \in {<<"0">>, <<"1">>},
        q \in {<<":", "f", "r", "e", "e", "b", "s", "d", ":", "x", "8", "6", "_", "6", "4">>, <<"F", "r", "e", "e", "B", "S", "D", ":", "1", "3", ":", "a", "m", "d", "6", "4">>, <<"a", "m", "d", "6", "4">>}, vi \in {<<"0">>, <<"1">>}}
    \cup {JoinTabs(<<<<"f", "o", "o">>>>), JoinTabs(<<<<"f", "o", "o">>, <<"1", ".", "2", "_", "3", ",", "1">>>>),
          JoinTabs(<<<<"f", "o", "o">>, <<"1", ".", "2">>, <<"F", "r", "e", "e", "B", "S", "D">>, <<"1">>, <<"y", "e", "s">>, <<"a", "m", "d", "6", "4">>>>)}

\* lines of qlist -Iv | xargs qatom
PortageEntries ==
    {<<"a", "p", "p", "-", "m", "i", "s", "c", " ", "f", "o", "o", " ", "1", ".", "0">>, <<"a", "p", "p", "-", "m", "i", "s", "c", " ", "f", "o", "o", " ", "1", ".", "0", " ", "r", "1">>, <<"a", "p", "p", "-", "m", "i", "s", "c", " ", " ", "b", "a", "r", " ", " ", " ", "2", ".", "1", " ", " ", "r", "2", " ", " ", "0">>, <<>>}

\* lines of apk info -v and apk list
ApkEntries ==
    {<<"f", "o", "o", "-", "1", ".", "0", "-", "r", "0">>, <<"l", "i", "b", "-", "f", "o", "o", "-", "1", ".", "0", "-", "r", "0">>, <<"f", "o", "o", "-", "1", ".", "0">>, <<"f", "o", "o">>,
     <<"f", "o", "o", "-", "1", ".", "0", "-", "r", "0", " ", "x", "8", "6", "_", "6", "4", " ", "{", "f", "o", "o", "}", " ", "(", "M", "I", "T", ")", " ", "[", "i", "n", "s", "t", "a", "l", "l", "e", "d", "]">>, <<"f", "o", "o", "-", "1", ".", "0", "-", "r", "0", " ", "x", "8", "6", "_", "6", "4", " ", "{", "f", "o", "o", "}", " ", "(", "M", "I", "T", ")">>}

\* lines of yum list
YumEntries ==
    {<<"b", "a", "s", "h", ".", "x", "8", "6", "_", "6", "4", " ", " ", "4", ".", "4", ".", "2", "0", "-", "1", ".", "e", "l", "8", " ", " ", "@", "B", "a", "s", "e", "O", "S">>, <<"b", "a", "s", "h", ".", "x", "8", "6", "_", "6", "4", " ", " ", "1", ":", "4", ".", "4", ".", "2", "0", "-", "1", ".", "e", "l", "8", " ", " ", "@", "B", "a", "s", "e", "O", "S">>,
     <<" ", " ", "p", "e", "r", "l", ".", "n", "o", "a", "r", "c", "h", " ", "4", ":", "5", ".", "2", "6", ".", "3", "-", "1", " ", "b", "a", "s", "e", " ", " ">>, <<"b", "a", "s", "h", " ", "4", ".", "4", " ", "b", "a", "s", "e">>, <<"a", ".", "b", ".", "c", " ", "1", ":", "2", ":", "3", "-", "4", "-", "5", " ", "r">>,
     <<"I", "n", "s", "t", "a", "l", "l", "e", "d", " ", "P", "a", "c", "k", "a", "g", "e", "s">>, <<"b", "a", "s", "h", ".", "x", "8", "6", "_", "6", "4", " ", "4", ".", "4", ".", "2", "0", "-", "1", ".", "e", "l", "8">>, <<"b", "a", "s", "h", ".", "x", "8", "6", "_", "6", "4", " ", "4", ".", "4", ".", "2", "0", " ", "(", "b", "a", "s", "e", ")">>,
     <<"f", "o", "o", ".", " ", ":", "1", ".", "0", "-", " ", "b", "a", "s", "e">>}

EntriesOf(tag) ==
    CASE tag = "rpm"     -> RpmEntries
      [] tag = "apt"     -> AptEntries
      [] tag = "pacman"  -> PacmanEntries
      [] tag = "pkg"     -> PkgEntries
      [] tag = "portage" -> PortageEntries
      [] tag = "apk"     -> ApkEntries
      [] tag = "yum"     -> YumEntries

NoProcess ==
    /\ manager = <<>>
    /\ strategy = "first"
    /\ all_available = FALSE
    /\ has_respawned = FALSE
    /\ pc = "none"
    /\ managers = <<>>
    /\ auto = FALSE
    /\ idx = 1
    /\ found = 0
    /\ seen = {}
    /\ packages = EmptyDict
    /\ warnings = <<>>
    /\ msg = ""
    /\ attempts = <<>>

InitDetails ==
    /\ NoProcess
    /\ mgr_class \in KnownTags
    /\ mgr_need \in BOOLEAN
    /\ mgr_all \in BOOLEAN
    /\ mgr_entry \in EntriesOf(mgr_class)
    /\ mgr_result = <<>>

Call(tag, result) ==
    /\ mgr_class = tag
    /\ mgr_result = <<>>
    /\ mgr_result' = <<result>>
    /\ UNCHANGED <<mvars, mgr_class, mgr_need, mgr_all, mgr_entry>>

DetailsRPM == Call("rpm", RPM_get_package_details(mgr_entry, mgr_need))

DetailsAPT == Call("apt", APT_get_package_details(mgr_entry, mgr_need, mgr_all))

DetailsPACMAN == Call("pacman", PACMAN_get_package_details(mgr_entry))

DetailsPKG == Call("pkg", PKG_get_package_details(mgr_entry))

DetailsPORTAGE == Call("portage", PORTAGE_get_package_details(mgr_entry))

DetailsAPK == Call("apk", APK_get_package_details(mgr_entry, mgr_need, mgr_all))

DetailsYUM == Call("yum", YUM_get_package_details(mgr_entry, mgr_need))

NextDetails ==
    \/ DetailsRPM
    \/ DetailsAPT
    \/ DetailsPACMAN
    \/ DetailsPKG
    \/ DetailsPORTAGE
    \/ DetailsAPK
    \/ DetailsYUM

SpecDetails == InitDetails /\ [][NextDetails]_vars

(***************************************************************************)
(* Vocabulary of the properties.                                           *)
(***************************************************************************)
\* the list with every repetition of a tag dropped, first occurrences kept
RECURSIVE DedupeFrom(_, _, _)
DedupeFrom(ms, i, acc) ==
    IF i > Len(ms) THEN acc
    ELSE DedupeFrom(ms, i + 1, IF ms[i] \in Range(acc) THEN acc ELSE Append(acc, ms[i]))

Dedupe(ms) == DedupeFrom(ms, 1, <<>>)

AttemptedTags == [i \in 1..Len(attempts) |-> attempts[i].tag]

\* is_available() returned true in this pass
WasAvailable(a) == a.outcome \in {"merged", "list_error"}

\* an exception was caught in this pass
WasError(a) == a.outcome \in {"ctor_error", "list_error"}

\* validation passed: the run reached the loop
Validated == pc \in {"loop", "exit", "respawned"} \/ (pc = "fail" /\ msg = "could_not_detect")

ValidationFailed == pc = "fail" /\ msg \in {"unsupported_requested", "could_not_auto_detect"}

\* the loop is over and main() has reported, in this process
Reported == pc = "exit" \/ (pc = "fail" /\ msg = "could_not_detect")

\* the records the backends merged so far reported under name n, in
\* attempt order
ReportedRecords(n) ==
    LET F[i \in 0..Len(attempts)] ==
            IF i = 0 THEN <<>>
            ELSE IF attempts[i].outcome = "merged"
                 THEN F[i-1] \o RecordsFor(attempts[i].tag, attempts[i].listing, n)
                 ELSE F[i-1]
    IN  F[Len(attempts)]

\* the backends that have a record in the catalog
Sources ==
    UNION {{packages[n][k].source : k \in 1..Len(packages[n])} : n \in DOMAIN packages}


(***************************************************************************)
(* C1.  Under strategy all, the catalog entry of a name holds the records  *)
(* of every backend that reported the name, in attempt order: a later      *)
(* merge never removes or replaces what an earlier backend contributed.    *)
(***************************************************************************)
C1_MergeKeepsEarlierRecords ==
    (strategy = "all" /\ Validated) =>
        \A n \in PkgNames :
            ReportedRecords(n) # <<>> =>
                n \in DOMAIN packages /\ packages[n] = ReportedRecords(n)

(***************************************************************************)
(* C2.  With auto requested under strategy first, rpm is attempted before  *)
(* yum; and once rpm is available yum is never constructed, probed or      *)
(* queried and every record of the catalog has source rpm.                 *)
(***************************************************************************)
C2_RpmBeforeYum ==
    (auto /\ strategy = "first" /\ Validated) =>
        /\ \A i \in 1..Len(attempts) :
               attempts[i].tag = "yum" => \E j \in 1..(i-1) : attempts[j].tag = "rpm"
        /\ (\E j \in 1..Len(attempts) : attempts[j].tag = "rpm" /\ WasAvailable(attempts[j])) =>
               /\ "yum" \notin Range(AttemptedTags)
               /\ "yum" \notin seen
               /\ Sources \subseteq {"rpm"}

C2_Witness ==
    /\ manager = <<"yum", "auto">>
    /\ strategy = "first"
    /\ pc = "exit"
    /\ Len(attempts) = 1 /\ attempts[1].tag = "rpm" /\ attempts[1].outcome = "merged"
    /\ Sources = {"rpm"}

(***************************************************************************)
(* C3.  In one run each backend tag is constructed and probed at most      *)
(* once, whatever the request list repeats.                                *)
(***************************************************************************)
C3_EachTagAttemptedOnce ==
    /\ \A i, j \in 1..Len(attempts) : attempts[i].tag = attempts[j].tag => i = j
    /\ seen = Range(AttemptedTags)

C3_Witness ==
    /\ manager = <<"yum", "auto">>
    /\ strategy = "all"
    /\ Reported
    /\ Len(managers) = 8
    /\ Len(attempts) = 7

(***************************************************************************)
(* C4.  Under strategy first nothing is attempted after the first backend  *)
(* whose availability check passed, so the catalog holds records of that   *)
(* backend only, the earliest available one of the finalized order; under  *)
(* strategy all a run that reports has attempted every distinct candidate. *)
(***************************************************************************)
C4_FirstStopsAllContinues ==
    Validated =>
        LET candidates == Dedupe(managers)
            n == Len(attempts)
        IN  /\ n <= Len(candidates)
            /\ \A i \in 1..n : attempts[i].tag = candidates[i]
            /\ strategy = "first" =>
                   /\ \A i \in 1..n : WasAvailable(attempts[i]) => i = n
                   /\ found <= 1
                   /\ pc = "exit" =>
                          /\ n > 0
                          /\ WasAvailable(attempts[n])
                          /\ Sources \subseteq {attempts[n].tag}
            /\ (strategy = "all" /\ Reported) => n = Len(candidates)

C4_Witness ==
    /\ strategy = "first"
    /\ pc = "exit"
    /\ Len(attempts) = 3
    /\ attempts[1].installed /\ ~WasAvailable(attempts[1])
    /\ Len(Dedupe(managers)) = 7
    /\ Sources = {attempts[3].tag}

(***************************************************************************)
(* C5.  The success count counts the backends whose entries were fetched   *)
(* and merged, and the run ends in the "could not detect" failure exactly  *)
(* when no backend got that far.                                           *)
(***************************************************************************)
C5_FoundCountsMergedBackends ==
    /\ found = Cardinality({i \in 1..Len(attempts) : attempts[i].outcome = "merged"})
    /\ Reported =>
           (pc = "fail" <=> \A i \in 1..Len(attempts) : attempts[i].outcome # "merged")

(***************************************************************************)
(* C6.  An error raised in one pass of the loop never ends the iteration:  *)
(* the next candidate is attempted, under both strategies; and the loop    *)
(* warns about the error only for a tag of the request list.               *)
(***************************************************************************)
C6_ErrorsNeverEndTheLoop ==
    /\ Reported =>
           \A i \in 1..Len(attempts) :
               (WasError(attempts[i]) /\ i < Len(Dedupe(managers))) => Len(attempts) > i
    /\ \A k \in 1..Len(warnings) :
           warnings[k].kind = "not_usable" => warnings[k].tag \in Range(manager)

(***************************************************************************)
(* C7.  Validation fails, before any backend is constructed, exactly when  *)
(* the request holds a tag that is neither auto nor a known backend; a     *)
(* request of auto and known tags passes with auto removed and every known *)
(* tag a candidate; the failure message is the auto-detect one exactly     *)
(* when auto was requested.                                                *)
(***************************************************************************)
C7_ValidationFailsIffUnknownTag ==
    pc # "start" =>
        LET unknown == {t \in Range(LowerAll(manager)) : t \notin KnownTags \cup {"auto"}}
        IN  /\ ValidationFailed <=> unknown # {}
            /\ ValidationFailed =>
                   /\ attempts = <<>>
                   /\ msg = IF "auto" \in Range(manager)
                            THEN "could_not_auto_detect" ELSE "unsupported_requested"
            /\ Validated =>
                   /\ "auto" \notin Range(managers)
                   /\ "auto" \in Range(LowerAll(manager)) => KnownTags \subseteq Range(managers)

(***************************************************************************)
(* C8.  A respawned process never probes alternate interpreters and never  *)
(* respawns again; a binding-based backend without its binding that does   *)
(* not respawn is reported unavailable, with a warning when its native     *)
(* tool is present, and the run goes on with the remaining candidates.     *)
(***************************************************************************)
\* what the claim says of one pass over a binding-based backend
NoBindingPass(a) == a.tag \in LibTags /\ a.outcome # "ctor_error" /\ ~a.lib

C8_RunGoesOn ==
    Reported =>
        \A i \in 1..Len(attempts) :
            (NoBindingPass(attempts[i]) /\ i < Len(Dedupe(managers))) => Len(attempts) > i

C8_RespawnOnce_AsClaimed ==
    /\ \A i \in 1..Len(attempts) :
           LET a == attempts[i] IN
           /\ (has_respawned /\ a.tag \in LibTags) => (~a.probed /\ a.outcome # "respawn")
           /\ (NoBindingPass(a) /\ a.outcome # "respawn") =>
                  /\ a.outcome = "not_available"
                  /\ a.tool => a.warned
    /\ C8_RunGoesOn

\* as amended: RPM in all-available mode returns false at once, silently
C8_RespawnOnce ==
    /\ \A i \in 1..Len(attempts) :
           LET a == attempts[i] IN
           /\ (has_respawned /\ a.tag \in LibTags) => (~a.probed /\ a.outcome # "respawn")
           /\ (NoBindingPass(a) /\ a.outcome # "respawn") =>
                  /\ a.outcome = "not_available"
                  /\ IF a.tag = "rpm" /\ all_available
                     THEN ~a.warned /\ ~a.probed
                     ELSE a.tool => a.warned
    /\ C8_RunGoesOn

C8_Witness ==
    /\ has_respawned
    /\ pc = "exit"
    /\ \E i \in 1..Len(attempts) :
           /\ attempts[i].tag = "rpm"
           /\ NoBindingPass(attempts[i])
           /\ attempts[i].tool /\ attempts[i].warned /\ ~attempts[i].probed
           /\ Len(attempts) > i


(***************************************************************************)
(* C9.  With need_package_details false, get_package_details of every      *)
(* backend returns a record whose only field is name, for every entry it   *)
(* accepts; apt in all-available mode returns name and is_installed.       *)
(***************************************************************************)
\* get_package_details was called and returned a record with a name
Accepted ==
    /\ mgr_result # <<>>
    /\ ~mgr_result[1].raised
    /\ "name" \in DOMAIN mgr_result[1].rec

C9_OnlyNameWithoutDetails ==
    (Accepted /\ ~mgr_need) =>
        DOMAIN mgr_result[1].rec =
            IF mgr_class = "apt" /\ mgr_all THEN {"name", "is_installed"} ELSE {"name"}

(***************************************************************************)
(* C10.  The pkg parser splits the version column on its first "," into    *)
(* version and port_epoch (port_epoch 0 without a ","), then the part      *)
(* before the "," on its first "_" into version and revision (revision     *)
(* "0" without a "_" there).  arch is cut to its third ":" segment,        *)
(* category to what precedes its first "/", automatic and vital become     *)
(* booleans.                                                               *)
(***************************************************************************)
\* the columns of the pkg line under study
PkgColumns == Split(mgr_entry, "\t")

PkgParsed == mgr_class = "pkg" /\ Accepted /\ Len(PkgColumns) = 9

\* as claimed: 1.2,1_3 gives version 1.2, port_epoch 1, revision 3
C10_PkgVersion_AsClaimed ==
    (PkgParsed /\ PkgColumns[2] = <<"1", ".", "2", ",", "1", "_", "3">>) =>
        LET rec == mgr_result[1].rec IN
        /\ rec.version = PyStr(<<"1", ".", "2">>)
        /\ rec.port_epoch = PyStr(<<"1">>)
        /\ rec.revision = PyStr(<<"3">>)

\* as amended: 1.2,1_3 gives version 1.2, port_epoch 1_3, revision 0
C10_PkgVersion ==
    PkgParsed =>
        LET rec == mgr_result[1].rec
            col == PkgColumns[2]
            hasEpoch == "," \in Range(col)
            head == IF hasEpoch THEN SubSeq(col, 1, IndexOf(col, ",") - 1) ELSE col
            hasRev == "_" \in Range(head)
            ver == rec.version.str
        IN  /\ "," \notin Range(ver) /\ "_" \notin Range(ver)
            /\ hasEpoch => /\ "str" \in DOMAIN rec.port_epoch
                           /\ col = head \o <<",">> \o rec.port_epoch.str
            /\ ~hasEpoch => rec.port_epoch = PyInt(0)
            /\ hasRev => head = ver \o <<"_">> \o rec.revision.str
            /\ ~hasRev => head = ver /\ rec.revision = PyStr(<<"0">>)
            /\ col = <<"1", ".", "2", ",", "1", "_", "3">> =>
                   /\ rec.version = PyStr(<<"1", ".", "2">>)
                   /\ rec.port_epoch = PyStr(<<"1", "_", "3">>)
                   /\ rec.revision = PyStr(<<"0">>)
            /\ col = <<"1", ".", "2", "_", "3", ",", "1">> =>
                   /\ rec.version = PyStr(<<"1", ".", "2">>)
                   /\ rec.port_epoch = PyStr(<<"1">>)
                   /\ rec.revision = PyStr(<<"3">>)
            /\ PkgColumns[6] = <<":", "f", "r", "e", "e", "b", "s", "d", ":", "x", "8", "6", "_", "6", "4">> => rec.arch = PyStr(<<"x", "8", "6", "_", "6", "4">>)
            /\ PkgColumns[7] = <<"p", "o", "r", "t", "s", "/", "f", "o", "o">> => rec.category = PyStr(<<"p", "o", "r", "t", "s">>)
            /\ rec.automatic = PyBool(PkgColumns[5] = <<"1">>)
            /\ rec.vital = PyBool(PkgColumns[9] = <<"1">>)

C10_Witness ==
    /\ PkgParsed
    /\ mgr_entry = JoinTabs(<<<<"f", "o", "o">>, <<"1", ".", "2", ",", "1", "_", "3">>, <<"F", "r", "e", "e", "B", "S", "D">>, <<"1">>, <<"0">>, <<":", "f", "r", "e", "e", "b", "s", "d", ":", "x", "8", "6", "_", "6", "4">>,
                              <<"p", "o", "r", "t", "s", "/", "f", "o", "o">>, <<"/", "u", "s", "r", "/", "l", "o", "c", "a", "l">>, <<"0">>>>)
    /\ mgr_result[1].rec.revision = PyStr(<<"0">>)
    /\ mgr_result[1].rec.port_epoch = PyStr(<<"1", "_", "3">>)

(***************************************************************************)
(* C11.  For every yum list line that matches the three-column pattern,    *)
(* with details requested: epoch is the part of the version column before  *)
(* its first ":" (no field when that part is empty or there is no ":"),    *)
(* release is the part after the last "-" of the remainder (no field when  *)
(* empty), version is what is left, arch is the part of the first column   *)
(* after its last "." (no field when empty), name what precedes it, repo   *)
(* the third column.  A line that does not match yields an empty record    *)
(* and no error.                                                           *)
(***************************************************************************)
\* the columns of the yum line under study
YumColumns == SplitWhitespace(mgr_entry)

\* YUM.get_package_details was called on the line under study
YumCalled == mgr_class = "yum" /\ mgr_result # <<>>

YumParsed == YumCalled /\ mgr_need /\ YumMatch(mgr_entry) # <<>>

\* the field of rec is text when text is not empty, and is absent otherwise
FieldIs(rec, field, text) ==
    IF text = <<>> THEN field \notin DOMAIN rec
    ELSE field \in DOMAIN rec /\ rec[field] = PyStr(text)

\* as claimed: the epoch is what precedes the LAST ":" of the version column
C11_YumColumns_AsClaimed ==
    YumParsed =>
        LET rec == mgr_result[1].rec
            col == YumColumns[2]
            k == LastIndexOf(col, ":")
        IN  k > 0 => /\ FieldIs(rec, "epoch", SubSeq(col, 1, k - 1))
                     /\ ":" \notin Range(rec.version.str)

\* as amended: the epoch is what precedes the FIRST ":" of the version column
C11_YumColumns ==
    /\ YumCalled => ~mgr_result[1].raised
    /\ (YumCalled /\ YumMatch(mgr_entry) = <<>>) => mgr_result[1].rec = EmptyRec
    /\ YumParsed =>
           LET rec == mgr_result[1].rec
               first == YumColumns[1]
               col == YumColumns[2]
               d == LastIndexOf(first, ".")
               k == IndexOf(col, ":")
               tail == SubSeq(col, k + 1, Len(col))
               r == LastIndexOf(tail, "-")
           IN  /\ DOMAIN rec \subseteq {"name", "arch", "epoch", "version", "release", "repo"}
               /\ rec.name = PyStr(IF d > 0 THEN SubSeq(first, 1, d - 1) ELSE first)
               /\ FieldIs(rec, "arch", IF d > 0 THEN SubSeq(first, d + 1, Len(first)) ELSE <<>>)
               /\ FieldIs(rec, "epoch", IF k > 0 THEN SubSeq(col, 1, k - 1) ELSE <<>>)
               /\ FieldIs(rec, "release", IF r > 0 THEN SubSeq(tail, r + 1, Len(tail)) ELSE <<>>)
               /\ "version" \in DOMAIN rec
               /\ rec.version = PyStr(IF r > 0 THEN SubSeq(tail, 1, r - 1) ELSE tail)
               /\ "repo" \in DOMAIN rec
               /\ rec.repo = PyStr(YumColumns[3])
               /\ mgr_entry = <<"b", "a", "s", "h", ".", "x", "8", "6", "_", "6", "4", " ", " ", "4", ".", "4", ".", "2", "0", "-", "1", ".", "e", "l", "8", " ", " ", "@", "B", "a", "s", "e", "O", "S">> =>
                      rec = ("name" :> PyStr(<<"b", "a", "s", "h">>) @@ "arch" :> PyStr(<<"x", "8", "6", "_", "6", "4">>)
                             @@ "version" :> PyStr(<<"4", ".", "4", ".", "2", "0">>) @@ "release" :> PyStr(<<"1", ".", "e", "l", "8">>)
                             @@ "repo" :> PyStr(<<"@", "B", "a", "s", "e", "O", "S">>))

\* a version column with two ":" was parsed: the epoch stops at the first
C11_Witness ==
    /\ YumParsed
    /\ YumColumns[2] = <<"1", ":", "2", ":", "3", "-", "4", "-", "5">>
    /\ mgr_result[1].rec.epoch = PyStr(<<"1">>)
    /\ mgr_result[1].rec.version = PyStr(<<"2", ":", "3", "-", "4">>)
    /\ mgr_result[1].rec.release = PyStr(<<"5">>)

(***************************************************************************)
(* C12.  In every run the tags the user requested explicitly are attempted *)
(* in the user's relative order and before any tag that is a candidate     *)
(* only through the expansion of auto: when a tag the user did not name    *)
(* is attempted, every tag the user named has been attempted already; for  *)
(* the request [apt, auto] under first, apt is the first backend           *)
(* attempted.                                                              *)
(***************************************************************************)
\* the tags the user named, in the user's order, auto left out
ExplicitTags ==
    LET Named(t) == t # "auto"
    IN  Dedupe(SelectSeq(LowerAll(manager), Named))

C12_ExplicitTagsFirst ==
    Validated =>
        LET n == Len(attempts)
            explicit == ExplicitTags
        IN  /\ \A i \in 1..n :
                   attempts[i].tag \notin Range(explicit) =>
                       Range(explicit) \subseteq {attempts[j].tag : j \in 1..(i-1)}
            /\ \A i, j \in 1..n :
                   (i < j /\ {attempts[i].tag, attempts[j].tag} \subseteq Range(explicit)) =>
                       IndexOf(explicit, attempts[i].tag) < IndexOf(explicit, attempts[j].tag)
            /\ (manager = <<"apt", "auto">> /\ strategy = "first" /\ n > 0) =>
                   attempts[1].tag = "apt"

=============================================================================
